---------------------------- MODULE Spec2Model ----------------------------
(***************************************************************************)
(* Model of binaural_experiment.py: the main thread (driver session,       *)
(* Qt event loop and the handlers it runs), the ExperimentWorker thread    *)
(* (marker / status sequencing) and the driver's marker channel.           *)
(*                                                                         *)
(* The Qt event loop is modelled by its contract: handlers run one at a    *)
(* time on the main thread, a signal emitted by the worker thread is       *)
(* queued and delivered in emission order, closing the last visible window *)
(* posts a quit request that showing a window withdraws, and exec_()       *)
(* returns once a quit request is pending.  A Python exception that leaves *)
(* a slot makes PyQt5 abort the process.  Time is a clock in units of      *)
(* sleep_time that advances while the event loop is idle and the worker    *)
(* sleeps.                                                                 *)
(***************************************************************************)
EXTENDS Integers, Sequences, FiniteSets, TLC

\* ------------------------------------------------------------------ bounds
MaxSongs == 2        \* num_songs ranges over 0..MaxSongs
MaxFaults == 1       \* driver / toolkit calls that may raise in one run
SamplingRate == 1    \* samples per second reported by the driver
MaxTicks == 2        \* live-view ticks that run conditioning in one run

\* --------------------------------------------------------- program constants
MarkerRelax == 1     \* start of relaxation
MarkerSong == 3      \* start of song
MarkerStart == 5     \* start of experiment
MarkerEnd == 6       \* end of experiment
window_size == 10    \* seconds shown by the live view
MinSeconds == 3      \* seconds of samples a tick needs
relax_duration == 30    \* seconds of the initial relaxation
song_duration == 120    \* seconds of one stimulus
pause_duration == 30    \* seconds of the relaxation after a stimulus
complete_duration == 5  \* seconds the last status message is shown
UnitsPerSecond == 2     \* the clock counts in units of sleep_time (0.5 s)
sleep_time == 1         \* the delay between phases, one clock unit
NumChannels == 4        \* channels shown by the live view (plot_names)
GoodScore == 99         \* quality from which a legend is green
MarginalScore == 95     \* quality from which a legend is yellow

num_points == window_size * SamplingRate
MaxSamples == (MinSeconds + 1) * SamplingRate

\* a duration given in seconds, in clock units
Secs(d) == d * UnitsPerSecond

VARIABLES
    cfg,            \* module-level configuration: num_songs, the song files
                    \* present, and whether each duration is an int
    mainPc,         \* position of main()
    session,        \* driver session: "none", "prepared", "streaming", "released"
    releases,       \* number of release_session() calls that completed
    faults,         \* driver calls that have raised so far
    buffered,       \* samples the driver has buffered (capped)
    markers,        \* the driver's marker channel, in write order
    graph,          \* Graph window: visible, timer, mains, renders, the
                    \* legends, and what the last tick pulled and called
    expwin,         \* ExperimentWindow: visible, the message the label
                    \* shows, pending singleShot timers
    quitPosted,     \* a quit request is pending in the event loop
    queue,          \* signals of the worker queued for the main thread
    workerPc,       \* position of ExperimentWorker.run
    songIdx,        \* loop variable i of run()
    starts,         \* number of QThread.start() calls
    errorLog,       \* logging.error records, in order
    hist,           \* order of the observable operations of the session
    final,          \* what experiment_finished did
    now,            \* the clock, in units of sleep_time; every sleep takes
                    \* its nominal time and a handler or statement none
    wakeAt,         \* when the time.sleep calls the worker is in return
    markerTimes     \* markerTimes[k] is the time markers[k] was written

vars == <<cfg, mainPc, session, releases, faults, buffered, markers, graph,
          expwin, quitPosted, queue, workerPc, songIdx, starts, errorLog,
          hist, final, now, wakeAt, markerTimes>>

clock == <<now, wakeAt, markerTimes>>

\* ------------------------------------------------------------------ helpers
Min(a, b) == IF a < b THEN a ELSE b

Ev(op, kind, n) == [op |-> op, kind |-> kind, n |-> n]

Sig(name, kind, n, dur) == [sig |-> name, kind |-> kind, n |-> n, dur |-> dur]

CanFault == faults < MaxFaults

\* errorLog holds a record of the handler of run() ("Error in experiment")
SequenceAborted == \E k \in 1..Len(errorLog) : errorLog[k].op # "PlaybackError"

\* the label of the ExperimentWindow shows no message
NoMsg == [kind |-> "none", n |-> 0]

AbortedBy(what) == \E k \in 1..Len(errorLog) : errorLog[k].op = what

\* the module-level configuration (lines 49-54): the number of songs, the
\* song files in song_directory, and whether relax_duration, song_duration
\* and pause_duration are ints (update_message is declared (str, int): emit
\* raises TypeError for any other duration)
Configs ==
    { [num_songs |-> n, files |-> f, relax_int |-> r, song_int |-> s, pause_int |-> p] :
        n \in 0..MaxSongs, f \in SUBSET (1..MaxSongs), r \in BOOLEAN,
        s \in BOOLEAN, p \in BOOLEAN }

\* mutant: the song file is never looked for
SongExistsUnchecked(i) == TRUE

\* os.path.exists(f'{song_directory}/song{i + 1:03d}.mp3') for loop index i
SongExists(i) == (i + 1) \in cfg.files

\* mutant: the loop stops one song early
HasNextSongOffByOne(i) == i < cfg.num_songs - 1

\* range(num_songs) still yields an index
HasNextSong(i) == i < cfg.num_songs

Init ==
    /\ cfg \in { c \in Configs : c.files \subseteq 1..c.num_songs }
    /\ mainPc = "prepare"
    /\ session = "none"
    /\ releases = 0
    /\ faults = 0
    /\ buffered = 0
    /\ markers = <<>>
    /\ graph = [created |-> FALSE, visible |-> FALSE, timer |-> FALSE, mains |-> "None",
                renders |-> 0, mainsCalls |-> 0, lastN |-> -1, lastCalls |-> <<>>,
                quality |-> [c \in 1..NumChannels |-> 0],
                legend |-> [c \in 1..NumChannels |-> <<>>],
                tickError |-> "none"]
    /\ expwin = [created |-> FALSE, visible |-> FALSE, label |-> NoMsg,
                 timers |-> {}]
    /\ quitPosted = FALSE
    /\ queue = <<>>
    /\ workerPc = "idle"
    /\ songIdx = 0
    /\ starts = 0
    /\ errorLog = <<>>
    /\ hist = <<>>
    /\ final = [runs |-> 0, got |-> FALSE, layout |-> "none", retrieved |-> <<>>,
                csv |-> FALSE, fif |-> FALSE, error |-> "none"]
    /\ now = 0
    /\ wakeAt = 0
    /\ markerTimes = <<>>

\* -------------------------------------------------------------- main thread
\* board_shim.prepare_session(); BrainFlowError -> sys.exit(1)
PrepareSession ==
    /\ mainPc = "prepare"
    /\ \/ /\ session' = "prepared"
          /\ mainPc' = "start_stream"
          /\ UNCHANGED faults
       \/ /\ CanFault
          /\ faults' = faults + 1
          /\ mainPc' = "exit1"
          /\ UNCHANGED session
    /\ UNCHANGED <<cfg, releases, buffered, markers, graph, expwin, quitPosted,
                   queue, workerPc, songIdx, starts, errorLog, hist, final>>
    /\ UNCHANGED clock

\* board_shim.start_stream(); BrainFlowError -> sys.exit(1)
StartStream ==
    /\ mainPc = "start_stream"
    /\ \/ /\ session' = "streaming"
          /\ mainPc' = "gui"
          /\ UNCHANGED faults
       \/ /\ CanFault
          /\ faults' = faults + 1
          /\ mainPc' = "exit1"
          /\ UNCHANGED session
    /\ UNCHANGED <<cfg, releases, buffered, markers, graph, expwin, quitPosted,
                   queue, workerPc, songIdx, starts, errorLog, hist, final>>
    /\ UNCHANGED clock

\* QApplication(...); Graph(...): initUI shows the window, the timer starts;
\* app.exec_() is entered
CreateGraph ==
    /\ mainPc = "gui"
    /\ graph' = [graph EXCEPT !.created = TRUE, !.visible = TRUE, !.timer = TRUE]
    /\ mainPc' = "exec"
    /\ UNCHANGED <<cfg, session, releases, faults, buffered, markers, expwin,
                   quitPosted, queue, workerPc, songIdx, starts, errorLog, hist,
                   final>>
    /\ UNCHANGED clock

\* app.exec_() returns: the quit request is processed after the events
\* queued before it
ExecReturns ==
    /\ mainPc = "exec"
    /\ quitPosted
    /\ queue = <<>>
    /\ mainPc' = "stop_stream"
    /\ UNCHANGED <<cfg, session, releases, faults, buffered, markers, graph,
                   expwin, quitPosted, queue, workerPc, songIdx, starts,
                   errorLog, hist, final>>
    /\ UNCHANGED clock

\* board_shim.stop_stream(); BrainFlowError -> sys.exit(1)
StopStream ==
    /\ mainPc = "stop_stream"
    /\ \/ /\ session' = "prepared"
          /\ mainPc' = "release"
          /\ UNCHANGED faults
       \/ /\ CanFault
          /\ faults' = faults + 1
          /\ mainPc' = "exit1"
          /\ UNCHANGED session
    /\ UNCHANGED <<cfg, releases, buffered, markers, graph, expwin, quitPosted,
                   queue, workerPc, songIdx, starts, errorLog, hist, final>>
    /\ UNCHANGED clock

\* board_shim.release_session(); main() returns
ReleaseSession ==
    /\ mainPc = "release"
    /\ session' = "released"
    /\ releases' = releases + 1
    /\ mainPc' = "exit0"
    /\ UNCHANGED <<cfg, faults, buffered, markers, graph, expwin, quitPosted,
                   queue, workerPc, songIdx, starts, errorLog, hist, final>>
    /\ UNCHANGED clock

\* the driver appends a packet (one second of samples) to its buffer while
\* streaming
Acquire ==
    /\ session = "streaming"
    /\ buffered + SamplingRate <= MaxSamples
    /\ buffered' = buffered + SamplingRate
    /\ UNCHANGED <<cfg, mainPc, session, releases, faults, markers, graph,
                   expwin, quitPosted, queue, workerPc, songIdx, starts,
                   errorLog, hist, final>>
    /\ UNCHANGED clock

\* --------------------------------------------- handlers run by app.exec_()
\* the process has neither returned from main(), called sys.exit(1) nor aborted
Alive == mainPc \notin {"exit0", "exit1", "aborted"}

\* mutant: a window of exactly three seconds is conditioned too
EnoughSamplesInclusive(n) == n >= MinSeconds * SamplingRate

\* data.shape[1] > 3 * self.sampling_rate
EnoughSamples(n) == n > MinSeconds * SamplingRate

\* mutant: mains detection runs in every conditioning tick
NeedsMainsAlways(mains) == TRUE

\* line 138: self.mains is None
NeedsMains(mains) == mains = "None"

\* what enotools.detect_mains can return
MainsBands == {"50Hz", "60Hz"}

\* the EXG channels of the board, one per entry of plot_names
Channels == 1..NumChannels

\* the quality scores (per cent) enotools.quality can report for a channel:
\* the last of the red range and the first and last of the yellow one, and
\* the first of the green range
Scores == {MarginalScore - 1, MarginalScore, GoodScore - 1, GoodScore}

\* every combination of scores over the channels
AllSignals == [Channels -> Scores]

\* the scores of a headset that fits well
GoodSignal == {[c \in Channels |-> 100]}

\* mutant: the second test is an if instead of an elif
LegendCallsNoElif(score) ==
    (IF score >= GoodScore THEN <<"g">> ELSE <<>>)
    \o (IF score >= MarginalScore THEN <<"y">> ELSE <<"r">>)

\* lines 148-153: the setLabelTextColor calls made for a channel with this
\* quality score, in call order
LegendCalls(score) ==
    IF score >= GoodScore THEN <<"g">>
    ELSE IF score >= MarginalScore THEN <<"y">>
    ELSE <<"r">>

\* the conditioning calls of one tick, in call order
TickCalls(n, mains) ==
    IF EnoughSamples(n)
    THEN (IF NeedsMains(mains) THEN <<"detect_mains">> ELSE <<>>)
         \o <<"quality", "referencing", "signal_filtering">>
    ELSE <<>>

\* Graph.update, run by the 50 ms timer, when enotools.quality reports one
\* of the given score vectors
TickWith(signals) ==
    /\ mainPc = "exec"
    /\ graph.timer
    /\ LET n == Min(buffered, num_points)
           calls == TickCalls(n, graph.mains)
           detects == calls # <<>> /\ calls[1] = "detect_mains"
       IN \/ \* get_current_board_data raises: the exception leaves the slot
             /\ CanFault
             /\ faults' = faults + 1
             /\ mainPc' = "aborted"
             /\ graph' = [graph EXCEPT !.tickError = "get_current_board_data"]
          \/ \* a conditioning call raises: the exception leaves the slot
             /\ CanFault
             /\ faults' = faults + 1
             /\ mainPc' = "aborted"
             /\ \E failed \in 1..Len(calls),
                   band \in IF detects THEN MainsBands ELSE {graph.mains} :
                   graph' = [graph EXCEPT
                      !.tickError = calls[failed],
                      !.mains = IF failed > 1 THEN band ELSE @,
                      !.mainsCalls = IF detects THEN @ + 1 ELSE @]
          \/ /\ EnoughSamples(n) => graph.renders < MaxTicks
             /\ \E band \in IF detects THEN MainsBands ELSE {graph.mains},
                   quality \in IF EnoughSamples(n) THEN signals ELSE {graph.quality} :
                   graph' = [graph EXCEPT
                      !.lastN = n,
                      !.lastCalls = calls,
                      !.mains = band,
                      !.mainsCalls = IF detects THEN @ + 1 ELSE @,
                      !.renders = IF EnoughSamples(n) THEN @ + 1 ELSE @,
                      !.quality = quality,
                      !.legend = IF EnoughSamples(n)
                                 THEN [c \in Channels |-> LegendCalls(quality[c])]
                                 ELSE @]
             /\ UNCHANGED <<faults, mainPc>>
    /\ UNCHANGED <<cfg, session, releases, buffered, markers, expwin,
                   quitPosted, queue, workerPc, songIdx, starts, errorLog, hist,
                   final>>
    /\ UNCHANGED clock

\* a tick of a session with a headset that fits well
Tick == TickWith(GoodSignal)

\* a tick of a session with any signal quality
TickAnySignal == TickWith(AllSignals)

\* mutant: the timer is not stopped
TimerLeftRunning == graph.timer

\* line 170: self.timer.stop()
TimerAfterStart == FALSE

\* mutant: the quit request posted by closing the Graph window stays pending
QuitAfterShowKept == ~FALSE

\* lines 171-173: self.close() posts a quit request (the last window
\* closed), showing the ExperimentWindow withdraws it
QuitAfterShow == FALSE

\* Graph.start_experiment, run by a click on the start button: the timer is
\* stopped, the Graph window closed, the ExperimentWindow built and shown
\* (which withdraws the quit request of the close) and the worker started
StartExperiment ==
    /\ mainPc = "exec"
    /\ graph.visible
    /\ graph' = [graph EXCEPT !.timer = TimerAfterStart, !.visible = FALSE]
    /\ expwin' = [expwin EXCEPT !.created = TRUE, !.visible = TRUE]
    /\ quitPosted' = QuitAfterShow
    /\ starts' = starts + 1
    /\ workerPc' = "marker_start"
    /\ wakeAt' = now
    /\ UNCHANGED <<cfg, mainPc, session, releases, faults, buffered, markers,
                   queue, songIdx, errorLog, hist, final, now, markerTimes>>

\* Graph.closeEvent: the user closes the live view without starting
CloseGraph ==
    /\ mainPc = "exec"
    /\ graph.visible
    /\ graph' = [graph EXCEPT !.visible = FALSE]
    /\ quitPosted' = TRUE
    /\ UNCHANGED <<cfg, mainPc, session, releases, faults, buffered, markers,
                   expwin, queue, workerPc, songIdx, starts, errorLog, hist,
                   final>>
    /\ UNCHANGED clock

\* ExperimentWindow.show_message, the slot of update_message: the label
\* shows the message and a singleShot timer for clear_message is started
ShowMessage ==
    /\ mainPc = "exec"
    /\ queue # <<>>
    /\ Head(queue).sig = "update_message"
    /\ LET m == Head(queue)
       IN expwin' = [expwin EXCEPT
             !.label = [kind |-> m.kind, n |-> m.n],
             !.timers = @ \cup {[due |-> now + m.dur, kind |-> m.kind, n |-> m.n]}]
    /\ queue' = Tail(queue)
    /\ UNCHANGED <<cfg, mainPc, session, releases, faults, buffered, markers,
                   graph, quitPosted, workerPc, songIdx, starts, errorLog, hist,
                   final>>
    /\ UNCHANGED clock

\* ExperimentWindow.clear_message, run by a singleShot timer that is due
\* (timers fire in the order they are due)
ClearMessage ==
    /\ mainPc = "exec"
    /\ \E t \in expwin.timers :
          /\ t.due <= now
          /\ \A u \in expwin.timers : t.due <= u.due
          /\ expwin' = [expwin EXCEPT !.label = NoMsg, !.timers = @ \ {t}]
    /\ UNCHANGED <<cfg, mainPc, session, releases, faults, buffered, markers,
                   graph, quitPosted, queue, workerPc, songIdx, starts, errorLog,
                   hist, final>>
    /\ UNCHANGED clock

\* what the conditioned buffer of experiment_finished holds: every row of
\* the board's layout with one length, or a timestamp / marker row that is
\* absent or shorter than the EEG rows
Layouts == {"ok", "marker_absent", "timestamp_absent", "marker_short",
            "timestamp_short"}

\* mutant: the end marker is written only after a sequence that did not abort
FinalMarkersOnSuccessOnly(ms) == IF SequenceAborted THEN ms ELSE Append(ms, MarkerEnd)

\* line 286: self.board_shim.insert_marker(6)
FinalMarkers(ms) == Append(ms, MarkerEnd)

\* lines 300-305: data[marker channel], data[timestamp channel]; indexing a
\* row the buffer does not hold raises IndexError
RowsIndexable(layout) == layout \notin {"marker_absent", "timestamp_absent"}

\* lines 308-318: zip() stops at the shortest column, the CSV file is
\* written whenever the rows could be indexed
CsvWritten(layout) == RowsIndexable(layout)

\* lines 327-345: np.vstack of the EEG rows and the marker row needs rows of
\* one length
FifWritten(layout) == layout = "ok"

\* the exception that leaves experiment_finished, "none" when it returns
FinalError(layout) ==
    IF ~RowsIndexable(layout) THEN "IndexError"
    ELSE IF ~FifWritten(layout) THEN "ValueError"
    ELSE "none"

\* line 288: time.sleep(sleep_time) in experiment_finished
UiSleep == sleep_time

\* ExperimentWindow.experiment_finished, the slot of finished: marker 6, the
\* sleep, close(), get_board_data(), conditioning and export
ExperimentFinished ==
    /\ mainPc = "exec"
    /\ queue # <<>>
    /\ Head(queue).sig = "finished"
    /\ queue' = Tail(queue)
    /\ \/ \* insert_marker(6) raises: the exception leaves the slot
          /\ CanFault
          /\ faults' = faults + 1
          /\ mainPc' = "aborted"
          /\ final' = [final EXCEPT !.runs = @ + 1, !.error = "BrainFlowError"]
          /\ UNCHANGED <<markers, hist, expwin, quitPosted, now, markerTimes>>
       \/ \* marker 6 written, window closed, get_board_data raises
          /\ CanFault
          /\ faults' = faults + 1
          /\ mainPc' = "aborted"
          /\ markers' = FinalMarkers(markers)
          /\ hist' = hist \o [k \in 1..(Len(markers') - Len(markers)) |->
                                Ev("marker", "ui", markers'[Len(markers) + k])]
          /\ expwin' = [expwin EXCEPT !.visible = FALSE]
          /\ quitPosted' = TRUE
          /\ final' = [final EXCEPT !.runs = @ + 1, !.error = "BrainFlowError"]
          /\ markerTimes' = Append(markerTimes, now)
          /\ now' = now + UiSleep
       \/ \* marker 6, close, full buffer retrieved, conditioned and exported
          \E layout \in Layouts :
            /\ markers' = FinalMarkers(markers)
            /\ hist' = hist
                       \o [k \in 1..(Len(markers') - Len(markers)) |->
                             Ev("marker", "ui", markers'[Len(markers) + k])]
                       \o <<Ev("get_board_data", "ui", 0)>>
            /\ expwin' = [expwin EXCEPT !.visible = FALSE]
            /\ quitPosted' = TRUE
            /\ final' = [final EXCEPT !.runs = @ + 1, !.got = TRUE,
                                      !.layout = layout,
                                      !.retrieved = markers',
                                      !.csv = CsvWritten(layout),
                                      !.fif = FifWritten(layout),
                                      !.error = FinalError(layout)]
            /\ mainPc' = IF FinalError(layout) = "none" THEN mainPc ELSE "aborted"
            /\ markerTimes' = Append(markerTimes, now)
            /\ now' = now + UiSleep
            /\ UNCHANGED faults
    /\ UNCHANGED <<cfg, session, releases, buffered, graph, workerPc, songIdx,
                   starts, errorLog, wakeAt>>

\* ------------------------------------------------------ ExperimentWorker.run
\* mutant: an exception ends run() without the finally block
OnExceptionNoFinally == "done"

\* where control goes when a statement of the try block raises: the handler
\* logs, then the finally block runs
OnException == "finally_status"

\* where control goes when the for loop is exhausted
OnLoopEnd == "finally_status"

\* the worker thread is not inside a time.sleep call
WorkerRuns == Alive /\ now >= wakeAt

\* self.board_shim.insert_marker(code) at position pc: the marker is written
\* and run() goes on at ok after the sleeps that follow the call, or the
\* driver raises BrainFlowError
InsertMarker(pc, code, ok, sleeps) ==
    /\ workerPc = pc
    /\ WorkerRuns
    /\ \/ /\ session = "streaming"
          /\ markers' = Append(markers, code)
          /\ markerTimes' = Append(markerTimes, now)
          /\ hist' = Append(hist, Ev("marker", "worker", code))
          /\ workerPc' = ok
          /\ wakeAt' = now + sleeps
          /\ UNCHANGED <<faults, errorLog>>
       \/ /\ CanFault
          /\ faults' = faults + 1
          /\ errorLog' = Append(errorLog, Ev("BrainFlowError", pc, songIdx))
          /\ workerPc' = OnException
          /\ UNCHANGED <<markers, hist, markerTimes, wakeAt>>
    /\ UNCHANGED now

\* self.update_message.emit(text, duration) at position pc: the signal is
\* queued for the main thread, or emit raises TypeError because the duration
\* is not an int
EmitStatus(pc, kind, n, isInt, dur, ok) ==
    /\ workerPc = pc
    /\ WorkerRuns
    /\ UNCHANGED clock
    /\ IF isInt
       THEN /\ queue' = Append(queue, Sig("update_message", kind, n, Secs(dur)))
            /\ hist' = Append(hist, Ev("status", kind, n))
            /\ workerPc' = ok
            /\ UNCHANGED errorLog
       ELSE /\ errorLog' = Append(errorLog, Ev("TypeError", pc, songIdx))
            /\ workerPc' = OnException
            /\ UNCHANGED <<queue, hist>>

\* line 197: insert_marker(5); sleep
WorkerMarkerStart ==
    /\ InsertMarker("marker_start", MarkerStart, "status_relax", sleep_time)
    /\ UNCHANGED <<cfg, mainPc, session, releases, buffered, graph, expwin,
                   quitPosted, queue, songIdx, starts, final>>

\* line 201: update_message.emit("Relax with eyes closed", relax_duration)
WorkerStatusRelax ==
    /\ EmitStatus("status_relax", "relax", 0, cfg.relax_int, relax_duration,
                  "marker_relax")
    /\ UNCHANGED <<cfg, mainPc, session, releases, faults, buffered, markers,
                   graph, expwin, quitPosted, songIdx, starts, final>>

\* lines 202-205: insert_marker(1); sleeps
WorkerMarkerRelax ==
    /\ InsertMarker("marker_relax", MarkerRelax, "loop",
                    Secs(relax_duration) + sleep_time)
    /\ UNCHANGED <<cfg, mainPc, session, releases, buffered, graph, expwin,
                   quitPosted, queue, songIdx, starts, final>>

\* lines 211-214: next index of range(num_songs); the song file must exist
WorkerLoop ==
    /\ workerPc = "loop"
    /\ WorkerRuns
    /\ UNCHANGED clock
    /\ IF ~HasNextSong(songIdx)
       THEN /\ workerPc' = OnLoopEnd
            /\ UNCHANGED errorLog
       ELSE IF ~SongExists(songIdx)
       THEN /\ errorLog' = Append(errorLog, Ev("FileNotFoundError", "loop", songIdx))
            /\ workerPc' = OnException
       ELSE /\ workerPc' = "status_song"
            /\ UNCHANGED errorLog
    /\ UNCHANGED <<cfg, mainPc, session, releases, faults, buffered, markers,
                   graph, expwin, quitPosted, queue, songIdx, starts, hist, final>>

\* line 216: update_message.emit(f"Song {i + 1}", song_duration)
WorkerStatusSong ==
    /\ EmitStatus("status_song", "stimulus", songIdx + 1, cfg.song_int,
                  song_duration, "marker_song")
    /\ UNCHANGED <<cfg, mainPc, session, releases, faults, buffered, markers,
                   graph, expwin, quitPosted, songIdx, starts, final>>

\* line 217: insert_marker(3)
WorkerMarkerSong ==
    /\ InsertMarker("marker_song", MarkerSong, "play_song", 0)
    /\ UNCHANGED <<cfg, mainPc, session, releases, buffered, graph, expwin,
                   quitPosted, queue, songIdx, starts, final>>

\* mutant: an exception of pygame leaves play_song
AfterPlaySongRaises(failed) == IF failed THEN OnException ELSE "status_pause"

\* lines 240-247: play_song catches and logs every exception; run() goes on
\* at line 223
AfterPlaySong(failed) == "status_pause"

\* mutant: no sleep between play_song and the next marker
SleepAfterSongNone == sleep_time - sleep_time

\* line 223: time.sleep(sleep_time)
SleepAfterSong == sleep_time

\* lines 220-223: play_song, then the sleep.  play_song starts playback and
\* sleeps song_duration (line 244); when mixer.init, load or play raises, the
\* handler of play_song logs it and the sleep of line 244 is skipped
WorkerPlaySong ==
    /\ workerPc = "play_song"
    /\ WorkerRuns
    /\ \/ /\ workerPc' = AfterPlaySong(FALSE)
          /\ wakeAt' = now + Secs(song_duration) + SleepAfterSong
          /\ UNCHANGED errorLog
       \/ /\ workerPc' = AfterPlaySong(TRUE)
          /\ wakeAt' = now + SleepAfterSong
          /\ errorLog' = Append(errorLog, Ev("PlaybackError", "play_song", songIdx))
    /\ UNCHANGED <<now, markerTimes>>
    /\ UNCHANGED <<cfg, mainPc, session, releases, faults, buffered, markers,
                   graph, expwin, quitPosted, queue, songIdx, starts, hist, final>>

\* line 225: update_message.emit("Relax", pause_duration)
WorkerStatusPause ==
    /\ EmitStatus("status_pause", "relax", songIdx + 1, cfg.pause_int,
                  pause_duration, "marker_pause")
    /\ UNCHANGED <<cfg, mainPc, session, releases, faults, buffered, markers,
                   graph, expwin, quitPosted, songIdx, starts, final>>

\* lines 226-229: insert_marker(1); sleeps; next iteration
WorkerMarkerPause ==
    /\ InsertMarker("marker_pause", MarkerRelax, "loop",
                    Secs(pause_duration) + sleep_time)
    /\ songIdx' = IF workerPc' = "loop" THEN songIdx + 1 ELSE songIdx
    /\ UNCHANGED <<cfg, mainPc, session, releases, buffered, graph, expwin,
                   quitPosted, queue, starts, final>>

\* line 236: update_message.emit("Experiment Complete", 5)
WorkerFinallyStatus ==
    /\ EmitStatus("finally_status", "complete", 0, TRUE, complete_duration,
                  "finally_finished")
    /\ UNCHANGED <<cfg, mainPc, session, releases, faults, buffered, markers,
                   graph, expwin, quitPosted, songIdx, starts, final>>

\* mutant: finished is emitted by the handler and again by the finally block
FinishedSignalsTwice == <<Sig("finished", "", 0, 0), Sig("finished", "", 0, 0)>>

\* the signals the last statement of the finally block emits
FinishedSignals == <<Sig("finished", "", 0, 0)>>

\* line 237: self.finished.emit(); run() returns
WorkerFinallyFinished ==
    /\ workerPc = "finally_finished"
    /\ WorkerRuns
    /\ UNCHANGED clock
    /\ queue' = queue \o FinishedSignals
    /\ hist' = hist \o [k \in 1..Len(FinishedSignals) |-> Ev("finished", "worker", 0)]
    /\ workerPc' = "done"
    /\ UNCHANGED <<cfg, mainPc, session, releases, faults, buffered, markers,
                   graph, expwin, quitPosted, songIdx, starts, errorLog, final>>

\* the times something is waiting for: the sleep of the worker and the
\* singleShot timers
Deadlines ==
    {t.due : t \in expwin.timers}
    \cup (IF workerPc \in {"idle", "done"} THEN {} ELSE {wakeAt})

\* time passes while the event loop is idle and the worker sleeps, up to the
\* next deadline
Advance ==
    /\ mainPc = "exec"
    /\ ~quitPosted
    /\ queue = <<>>
    /\ Deadlines # {}
    /\ \A d \in Deadlines : d > now
    /\ now' = CHOOSE d \in Deadlines : \A e \in Deadlines : d <= e
    /\ UNCHANGED <<cfg, mainPc, session, releases, faults, buffered, markers,
                   graph, expwin, quitPosted, queue, workerPc, songIdx, starts,
                   errorLog, hist, final, wakeAt, markerTimes>>

Next ==
    \/ PrepareSession
    \/ StartStream
    \/ CreateGraph
    \/ ExecReturns
    \/ StopStream
    \/ ReleaseSession
    \/ Acquire
    \/ Tick
    \/ StartExperiment
    \/ CloseGraph
    \/ ShowMessage
    \/ ClearMessage
    \/ ExperimentFinished
    \/ WorkerMarkerStart
    \/ WorkerStatusRelax
    \/ WorkerMarkerRelax
    \/ WorkerLoop
    \/ WorkerStatusSong
    \/ WorkerMarkerSong
    \/ WorkerPlaySong
    \/ WorkerStatusPause
    \/ WorkerMarkerPause
    \/ WorkerFinallyStatus
    \/ WorkerFinallyFinished
    \/ Advance

Spec == Init /\ [][Next]_vars

\* a session in which the operator watches the live view with any signal
\* quality and closes it without starting the experiment
InitLive ==
    /\ Init
    /\ cfg.num_songs = MaxSongs
    /\ cfg.files = 1..MaxSongs
    /\ cfg.relax_int /\ cfg.song_int /\ cfg.pause_int

NextLive ==
    \/ PrepareSession
    \/ StartStream
    \/ CreateGraph
    \/ ExecReturns
    \/ StopStream
    \/ ReleaseSession
    \/ Acquire
    \/ TickAnySignal
    \/ CloseGraph

SpecLive == InitLive /\ [][NextLive]_vars

\* ---------------------------------------------------------------- properties
RECURSIVE Repeat(_, _)
Repeat(s, n) == IF n = 0 THEN <<>> ELSE s \o Repeat(s, n - 1)

IsPrefix(s, t) == Len(s) <= Len(t) /\ \A k \in 1..Len(s) : s[k] = t[k]

\* 5, 1, (3, 1) x n: the markers of a sequence of n stimuli
SequenceMarkers(n) == <<5, 1>> \o Repeat(<<3, 1>>, n)

\* 5, 1, (3, 1) x n, 6: the markers of a whole session of n stimuli
SessionMarkers(n) == SequenceMarkers(n) \o <<6>>

HistIdx(op, kind) == { k \in 1..Len(hist) : hist[k].op = op /\ hist[k].kind = kind }

\* the marker codes the worker wrote, in write order
WorkerMarkers ==
    LET w == SelectSeq(hist, LAMBDA e : e.op = "marker" /\ e.kind = "worker")
    IN [k \in 1..Len(w) |-> w[k].n]

StatusEvents(kind) == SelectSeq(hist, LAMBDA e : e.op = "status" /\ e.kind = kind)

\* nothing raised anywhere in the run
NoFailure == faults = 0 /\ ~SequenceAborted /\ final.error = "none"

Ended == mainPc \in {"exit0", "exit1", "aborted"}

\* C1: in a run without failure the markers written to the driver are always
\* a prefix of 5, 1, (3, 1) x num_songs, 6, and are exactly that sequence once
\* the full buffer has been retrieved and when the process exits after a
\* started experiment.
C1_MarkerSequence ==
    NoFailure =>
        /\ IsPrefix(markers, SessionMarkers(cfg.num_songs))
        /\ final.got => markers = SessionMarkers(cfg.num_songs)
        /\ (mainPc = "exit0" /\ starts > 0) => markers = SessionMarkers(cfg.num_songs)

C1_Witness ==
    /\ NoFailure
    /\ mainPc = "exit0"
    /\ cfg.num_songs = MaxSongs
    /\ markers = SessionMarkers(MaxSongs)

\* C2: the completion signal is emitted at most once, it has been emitted
\* exactly once when run() has returned, whichever path run() took (normal
\* end, missing song file, an exception of a marker write or of a status
\* emit), and the operation just before it is the "complete" status event.
C2_FinishedOnce ==
    LET f == HistIdx("finished", "worker")
    IN /\ Cardinality(f) <= 1
       /\ workerPc = "done" <=> Cardinality(f) = 1
       /\ \A k \in f : k > 1 /\ hist[k - 1] = Ev("status", "complete", 0)
       /\ Len(StatusEvents("complete")) <= 1

C2_Witness ==
    /\ workerPc = "done"
    /\ AbortedBy("BrainFlowError")
    /\ Cardinality(HistIdx("finished", "worker")) = 1

\* the first stimulus (1-based) whose song file is missing, 0 when none is
FirstMissing ==
    LET miss == { i \in 1..cfg.num_songs : i \notin cfg.files }
    IN IF miss = {} THEN 0 ELSE CHOOSE i \in miss : \A j \in miss : i <= j

\* C3: when the song file of stimulus i is the first one missing, no status
\* event is ever emitted for stimulus i or a later one, the worker's markers
\* never go beyond 5, 1, (3, 1) x (i-1), and once run() has aborted on the
\* missing file they are exactly that sequence.
C3_MissingAssetAborts ==
    LET i == FirstMissing
    IN i > 0 =>
        /\ \A k \in 1..Len(hist) :
              (hist[k].op = "status" /\ hist[k].kind \in {"stimulus", "relax"})
                  => hist[k].n < i
        /\ IsPrefix(WorkerMarkers, SequenceMarkers(i - 1))
        /\ AbortedBy("FileNotFoundError") =>
              /\ WorkerMarkers = SequenceMarkers(i - 1)
              /\ errorLog[Len(errorLog)] = Ev("FileNotFoundError", "loop", i - 1)
              /\ workerPc \in {"finally_status", "finally_finished", "done"}

C3_Witness ==
    /\ FirstMissing = 2
    /\ AbortedBy("FileNotFoundError")
    /\ workerPc = "done"
    /\ WorkerMarkers = <<5, 1, 3, 1>>

\* C4: after a sequence that aborted, once the full buffer has been
\* retrieved marker 6 has been written exactly once, after every marker of the
\* worker and before the retrieval, and it is the last marker of the
\* retrieved buffer; a process that exits normally after such a sequence has
\* retrieved the buffer.
C4_EndMarkerAfterAbort ==
    LET end == HistIdx("marker", "ui")
        got == HistIdx("get_board_data", "ui")
    IN SequenceAborted =>
        /\ final.got =>
              /\ Cardinality(end) = 1 /\ Cardinality(got) = 1
              /\ \A e \in end :
                    /\ hist[e].n = 6
                    /\ \A w \in HistIdx("marker", "worker") : w < e
                    /\ \A g \in got : e < g
              /\ final.retrieved = WorkerMarkers \o <<6>>
        /\ (mainPc = "exit0" /\ starts > 0) => final.got

C4_Witness ==
    /\ AbortedBy("FileNotFoundError")
    /\ final.got
    /\ final.retrieved = <<5, 1, 3, 1, 6>>
    /\ mainPc = "exit0"

\* C5: experiment_finished runs at most once, only after the worker has
\* emitted finished and returned from run(), never before a marker write of
\* the worker, and it has run exactly once when the event loop of a started
\* experiment has returned.
C5_FinalizationOnce ==
    /\ final.runs <= 1
    /\ final.runs = 1 => (workerPc = "done" /\ HistIdx("finished", "worker") # {})
    /\ \A u \in HistIdx("marker", "ui") \cup HistIdx("get_board_data", "ui") :
          /\ \A w \in HistIdx("marker", "worker") : w < u
          /\ \A f \in HistIdx("finished", "worker") : f < u
          /\ HistIdx("finished", "worker") # {}
    /\ (starts > 0 /\ mainPc \in {"stop_stream", "release", "exit0", "exit1"})
          => final.runs = 1

C5_Witness ==
    /\ final.runs = 1
    /\ final.got
    /\ mainPc = "exit0"
    /\ Len(WorkerMarkers) = Len(SequenceMarkers(MaxSongs))

\* C6: in a sequence that does not abort, every relax / stimulus status event
\* is directly followed by the marker write of its phase (1 / 3), and when the
\* loop has ended num_songs stimulus and num_songs + 1 relax status events
\* have been emitted.
C6_StatusEvents ==
    ~SequenceAborted =>
        /\ \A k \in 1..(Len(hist) - 1) :
              /\ (hist[k].op = "status" /\ hist[k].kind = "relax")
                    => hist[k + 1] = Ev("marker", "worker", 1)
              /\ (hist[k].op = "status" /\ hist[k].kind = "stimulus")
                    => hist[k + 1] = Ev("marker", "worker", 3)
        /\ workerPc \in {"finally_status", "finally_finished", "done"} =>
              /\ Len(StatusEvents("stimulus")) = cfg.num_songs
              /\ Len(StatusEvents("relax")) = cfg.num_songs + 1
              /\ \A k \in 1..cfg.num_songs : StatusEvents("stimulus")[k].n = k

C6_Witness ==
    /\ ~SequenceAborted
    /\ workerPc = "done"
    /\ cfg.num_songs = MaxSongs
    /\ Len(StatusEvents("stimulus")) = MaxSongs
    /\ Len(StatusEvents("relax")) = MaxSongs + 1

\* C7: the worker is started at most once; once it has been started the
\* live-view timer is stopped for good and no tick changes the live view
\* (no read of the buffer, no conditioning) any more.
C7_LiveViewHalted ==
    /\ [](starts <= 1 /\ (starts = 1 => ~graph.timer))
    /\ [][starts >= 1 => graph' = graph]_vars

C7_Witness ==
    /\ starts = 1
    /\ workerPc = "done"
    /\ graph.renders > 0
    /\ graph.lastN >= 0

\* C8: when the process has ended after the driver session was prepared, the
\* session has been released exactly once.
C8_ReleasedExactlyOnce ==
    /\ releases <= 1
    /\ (Ended /\ session # "none") => releases = 1

C11_ExitStatus ==
    Ended =>
        /\ mainPc = "exit1" <=> ~graph.created
        /\ graph.created => mainPc = "exit0"

\* C12: in every stimulus phase at least song_duration plus sleep_time
\* elapses between the write of marker 3 and the write of the relax marker 1
\* that follows it, whether or not playback could be started.
C12_FullStimulusWait ==
    \A k \in 1..(Len(markers) - 1) :
        (markers[k] = MarkerSong /\ markers[k + 1] = MarkerRelax) =>
            markerTimes[k + 1] - markerTimes[k] >= Secs(song_duration) + sleep_time

\* C13: no handler of the UI context performs a blocking wait: time never
\* passes within a step in which a handler of the Graph window or of the
\* ExperimentWindow ran.
C13_NoBlockingWaitInUi ==
    [][now' > now => (graph' = graph /\ expwin' = expwin /\ final' = final)]_vars

\* C16: on every path at least sleep_time elapses between two consecutive
\* marker writes, the last marker of the worker and marker 6 included.
C16_MarkersSpaced ==
    /\ Len(markerTimes) = Len(markers)
    /\ \A k \in 1..(Len(markerTimes) - 1) :
          markerTimes[k + 1] - markerTimes[k] >= sleep_time

C16_Witness ==
    /\ AbortedBy("PlaybackError")
    /\ SequenceAborted
    /\ Len(markers) >= 2
    /\ markers[Len(markers)] = MarkerEnd
    /\ markers[Len(markers) - 1] = MarkerSong
    /\ markerTimes[Len(markers)] - markerTimes[Len(markers) - 1] = sleep_time

\* C17: a playback failure does not abort the sequence: when run() has
\* returned after a playback failure and nothing else raised, the worker has
\* written 5, 1, (3, 1) x num_songs, emitted the status of every stimulus and
\* of every relaxation, and ended with the completion status and one
\* finished signal.
C17_PlaybackFailureTolerated ==
    (workerPc = "done" /\ AbortedBy("PlaybackError") /\ ~SequenceAborted) =>
        /\ WorkerMarkers = SequenceMarkers(cfg.num_songs)
        /\ Len(StatusEvents("stimulus")) = cfg.num_songs
        /\ Len(StatusEvents("relax")) = cfg.num_songs + 1
        /\ Len(StatusEvents("complete")) = 1
        /\ Cardinality(HistIdx("finished", "worker")) = 1

C17_Witness ==
    /\ workerPc = "done"
    /\ ~SequenceAborted
    /\ cfg.num_songs = MaxSongs
    /\ errorLog # <<>>
    /\ errorLog[1] = Ev("PlaybackError", "play_song", 0)
    /\ WorkerMarkers = SequenceMarkers(MaxSongs)
    /\ final.got

\* C18: a clear timer never blanks a later status message: whenever a timer
\* blanks the message the visible ExperimentWindow shows, the timer was
\* started by that message and is due.
C18_ClearOwnMessage ==
    [][\A t \in expwin.timers \ expwin'.timers :
          (expwin.visible /\ expwin.label # NoMsg) =>
              /\ t.kind = expwin.label.kind
              /\ t.n = expwin.label.n
              /\ t.due <= now]_vars

C14_MainsDetectedOnce ==
    /\ [](graph.mainsCalls <= 1 /\ (graph.mains # "None" => graph.mainsCalls = 1))
    /\ [][graph.mains # "None" => graph'.mains = graph.mains]_vars
    /\ [][graph.mainsCalls = 1 => graph'.mainsCalls = 1]_vars

C14_Witness ==
    /\ graph.renders >= 2
    /\ graph.mainsCalls = 1
    /\ graph.mains = "60Hz"
    /\ graph.lastCalls = <<"quality", "referencing", "signal_filtering">>

\* C15: an error raised in a live-view tick, by the driver read or by a
\* conditioning call, does not leave the tick: the process is not aborted
\* by it.
C15_TickErrorContained ==
    graph.tickError # "none" => mainPc # "aborted"

\* C20: after a conditioning tick every channel's legend has been given
\* exactly one colour: green for a score >= 99, yellow for 95 <= score < 99,
\* red for a score < 95.
C20_LegendColours ==
    graph.renders > 0 =>
        \A c \in Channels :
            /\ Len(graph.legend[c]) = 1
            /\ graph.quality[c] >= 99 => graph.legend[c] = <<"g">>
            /\ (95 <= graph.quality[c] /\ graph.quality[c] < 99)
                  => graph.legend[c] = <<"y">>
            /\ graph.quality[c] < 95 => graph.legend[c] = <<"r">>

C20_Witness ==
    /\ graph.renders > 0
    /\ graph.quality = <<99, 98, 95, 94>>
    /\ graph.legend = <<(<<"g">>), (<<"y">>), (<<"y">>), (<<"r">>)>>

=============================================================================
